---- MODULE Spec2Model ----
(***************************************************************************)
(* A model of pdfcli's PDF object prototypes (include/utility.h): the      *)
(* PdfObj class hierarchy with its write and operator== members, the       *)
(* destructors that tear a value tree down, and the recursive-descent      *)
(* parser declared at the end of the header.                               *)
(*                                                                         *)
(* A PdfObj is a record whose field cls names its dynamic class; the       *)
(* other fields are the data members of that class.  Text (std::string,    *)
(* the bytes of a stream) is a sequence of one-character strings.          *)
(***************************************************************************)
EXTENDS Integers, Sequences, FiniteSets, TLC

VARIABLES
    a, b,       \* two PdfObj values, the operands of operator==
    cmp,        \* what the last comparison of a with b returned
    log,        \* the (key, value) pairs inserted into a, in insertion order
    os,         \* the std::ostream a was written to
    buf, pos,   \* the std::istream: its bytes and its cursor
    start,      \* the cursor before the last call of parse_pdf_obj
    res,        \* what the last call of parse_pdf_obj returned
    heap,       \* the allocated PdfObj nodes, by address
    deleted     \* how many times delete ran on each address

vars == <<a, b, cmp, log, os, buf, pos, start, res, heap, deleted>>

----------------------------------------------------------------------------
(* Bounds of the model.                                                    *)

\* the largest integer payload (PdfInt::data, PdfRef::num, PdfRef::gen)
MaxInt == 1
\* the most elements an array operand holds
MaxLen == 2
\* the most tokens of an input drawn from the whole token alphabet
MaxTokens == 3
\* the most key/value pairs between the << and >> of an input dictionary
MaxPairs == 2

----------------------------------------------------------------------------
(* Characters.  Ascii lists the whitespace and the printable characters in *)
(* the order of their codes, which is the order std::string compares them  *)
(* in (a backquote cannot be written in a string and is left out; "NUL"    *)
(* stands for the byte 0).                                                 *)

Ascii ==
    <<
       "NUL", "\t", "\n", "\f", "\r", " ", "!", "\"", "#", "$", "%", "&", "'",
       "(", ")", "*", "+", ",", "-", ".", "/", "0", "1", "2", "3",
       "4", "5", "6", "7", "8", "9", ":", ";", "<", "=", ">", "?",
       "@", "A", "B", "C", "D", "E", "F", "G", "H", "I", "J", "K",
       "L", "M", "N", "O", "P", "Q", "R", "S", "T", "U", "V", "W",
       "X", "Y", "Z", "[", "\\", "]", "^", "_", "a", "b", "c",
       "d", "e", "f", "g", "h", "i", "j", "k", "l", "m", "n", "o",
       "p", "q", "r", "s", "t", "u", "v", "w", "x", "y", "z", "{",
       "|", "}", "~"
    >>

Ord(c) == CHOOSE i \in 1..Len(Ascii) : Ascii[i] = c

\* std::string::operator< : lexicographic, a proper prefix is smaller
RECURSIVE StringLess(_, _)
StringLess(s, u) ==
    IF u = <<>> THEN FALSE
    ELSE IF s = <<>> THEN TRUE
    ELSE IF Ord(Head(s)) < Ord(Head(u)) THEN TRUE
    ELSE IF Ord(Head(u)) < Ord(Head(s)) THEN FALSE
    ELSE StringLess(Tail(s), Tail(u))

Digits == <<"0", "1", "2", "3", "4", "5", "6", "7", "8", "9">>

\* operator<<(std::ostream&, int64_t): decimal digits, '-' before a negative
RECURSIVE NatText(_)
NatText(n) ==
    IF n < 10 THEN <<Digits[n + 1]>>
    ELSE NatText(n \div 10) \o <<Digits[(n % 10) + 1]>>

IntText(i) == IF i < 0 THEN <<"-">> \o NatText(-i) ELSE NatText(i)

----------------------------------------------------------------------------
(* The classes of the object model and their constructors.                 *)

PdfNull == [cls |-> "PdfNull"]
PdfString(s) == [cls |-> "PdfString", data |-> s]
PdfName(s) == [cls |-> "PdfName", data |-> s]
PdfInt(i) == [cls |-> "PdfInt", data |-> i]
PdfReal(d) == [cls |-> "PdfReal", data |-> d]
PdfBool(v) == [cls |-> "PdfBool", data |-> v]
PdfArray(objs) == [cls |-> "PdfArray", objects |-> objs]
PdfDict(ps) == [cls |-> "PdfDict", pairs |-> ps]
PdfStream(d, bytes) == [cls |-> "PdfStream", dict |-> d, stream |-> bytes]
PdfRefSwapped(n, g) == [cls |-> "PdfRef", num |-> g, gen |-> n]
PdfRef(n, g) == [cls |-> "PdfRef", num |-> n, gen |-> g]
PdfTopLevel(n, g, o) == [cls |-> "PdfTopLevel", num |-> n, gen |-> g, obj |-> o]

\* dynamic_cast<const C *>(&obj) succeeds
IsA(obj, c) == obj.cls = c

\* double's operator== : a NaN equals nothing, itself included
NaN == <<"n", "a", "n">>
DoubleEq(x, y) == x # NaN /\ y # NaN /\ x = y

----------------------------------------------------------------------------
(* std::map<PdfName, PdfObj *> : a sequence of pairs [first, second] kept  *)
(* in ascending order of the keys under PdfName::operator<.  Two keys are  *)
(* the same key when neither is less than the other.                       *)

NameLessNever(x, y) == FALSE
NameLess(x, y) == StringLess(x.data, y.data)

\* std::map::lower_bound: the first position whose key is not less than k
LowerBound(ps, k) ==
    IF \E i \in 1..Len(ps) : ~NameLess(ps[i].first, k)
    THEN CHOOSE i \in 1..Len(ps) :
            /\ ~NameLess(ps[i].first, k)
            /\ \A j \in 1..(i - 1) : NameLess(ps[j].first, k)
    ELSE Len(ps) + 1

\* std::map::find: the position of k's entry, 0 for end()
MapFind(ps, k) ==
    LET i == LowerBound(ps, k)
    IN  IF i <= Len(ps) /\ ~NameLess(k, ps[i].first) THEN i ELSE 0

MapPutAtEnd(ps, k, v) ==
    IF MapFind(ps, k) # 0 THEN ps ELSE Append(ps, [first |-> k, second |-> v])
\* std::map::insert / emplace: a new entry at k's place; an entry already
\* stored under k is kept
MapInsert(ps, k, v) ==
    IF MapFind(ps, k) # 0 THEN ps
    ELSE LET i == LowerBound(ps, k)
         IN  SubSeq(ps, 1, i - 1) \o <<[first |-> k, second |-> v]>>
                 \o SubSeq(ps, i, Len(ps))

\* pairs[k] = v : the entry stored under k is overwritten, or a new one made
MapAssign(ps, k, v) ==
    LET i == MapFind(ps, k)
    IN  IF i # 0 THEN [ps EXCEPT ![i].second = v] ELSE MapInsert(ps, k, v)

----------------------------------------------------------------------------
(* operator== and operator!= of every class.                               *)

RECURSIVE Eq(_, _)

\* PdfObj::operator!=
Ne(self, other) == ~Eq(self, other)

PdfNullEq(self, other) == IF IsA(other, "PdfNull") THEN TRUE ELSE FALSE

PdfStringEq(self, obj) ==
    IF IsA(obj, "PdfString") THEN self.data = obj.data ELSE FALSE

PdfNameEq(self, obj) ==
    IF IsA(obj, "PdfName") THEN self.data = obj.data ELSE FALSE

PdfIntEq(self, obj) ==
    IF IsA(obj, "PdfInt") THEN self.data = obj.data ELSE FALSE

PdfRealEq(self, obj) ==
    IF IsA(obj, "PdfReal") THEN DoubleEq(self.data, obj.data) ELSE FALSE

PdfBoolEq(self, obj) ==
    IF IsA(obj, "PdfBool") THEN self.data = obj.data ELSE FALSE

\* the loop of PdfArray::operator== from index i on: FALSE is its early return
RECURSIVE ArrayLoop(_, _, _)
ArrayLoop(self, other, i) ==
    IF i > Len(self.objects) THEN TRUE
    ELSE IF Ne(self.objects[i], other.objects[i]) THEN FALSE
    ELSE ArrayLoop(self, other, i + 1)

PdfArrayEqNoSize(self, obj) ==
    IF IsA(obj, "PdfArray")
    THEN \A i \in 1..Len(self.objects) :
            i <= Len(obj.objects) => ~Ne(self.objects[i], obj.objects[i])
    ELSE TRUE
PdfArrayEq(self, obj) ==
    IF IsA(obj, "PdfArray")
    THEN IF Len(self.objects) # Len(obj.objects) THEN FALSE
         ELSE ArrayLoop(self, obj, 1)
    ELSE TRUE

\* the loop of PdfDict::operator== over self's pairs from position i on
RECURSIVE DictLoop(_, _, _)
DictLoop(self, other, i) ==
    IF i > Len(self.pairs) THEN TRUE
    ELSE LET p == self.pairs[i]
             it == MapFind(other.pairs, p.first)
         IN  IF it = 0 \/ Ne(other.pairs[it].second, p.second) THEN FALSE
             ELSE DictLoop(self, other, i + 1)

PdfDictEq(self, obj) ==
    IF IsA(obj, "PdfDict")
    THEN IF Len(self.pairs) # Len(obj.pairs) THEN FALSE
         ELSE DictLoop(self, obj, 1)
    ELSE TRUE

PdfStreamEq(self, obj) ==
    IF IsA(obj, "PdfStream")
    THEN Eq(self.dict, obj.dict) /\ self.stream = obj.stream
    ELSE FALSE

PdfRefEq(self, obj) ==
    IF IsA(obj, "PdfRef")
    THEN self.num = obj.num /\ self.gen = obj.gen
    ELSE FALSE

PdfTopLevelEq(self, obj) ==
    IF IsA(obj, "PdfTopLevel")
    THEN self.num = obj.num /\ self.gen = obj.gen /\ Eq(self.obj, obj.obj)
    ELSE FALSE

\* the virtual call  self == other : the override of self's class runs
Eq(self, other) ==
    CASE self.cls = "PdfNull" -> PdfNullEq(self, other)
      [] self.cls = "PdfString" -> PdfStringEq(self, other)
      [] self.cls = "PdfName" -> PdfNameEq(self, other)
      [] self.cls = "PdfInt" -> PdfIntEq(self, other)
      [] self.cls = "PdfReal" -> PdfRealEq(self, other)
      [] self.cls = "PdfBool" -> PdfBoolEq(self, other)
      [] self.cls = "PdfArray" -> PdfArrayEq(self, other)
      [] self.cls = "PdfDict" -> PdfDictEq(self, other)
      [] self.cls = "PdfStream" -> PdfStreamEq(self, other)
      [] self.cls = "PdfRef" -> PdfRefEq(self, other)
      [] self.cls = "PdfTopLevel" -> PdfTopLevelEq(self, other)

----------------------------------------------------------------------------
(* write of every class: the text it puts on the std::ostream.             *)

RECURSIVE Write(_)

PdfNullWrite(self) == <<"n", "u", "l", "l">>

PdfStringWrite(self) == <<"(">> \o self.data \o <<")">>

PdfNameWrite(self) == self.data

PdfIntWrite(self) == IntText(self.data)

\* os << std::setprecision(15) << data : a double is held as its shortest
\* decimal text, which has fewer than 15 digits for every double of the model
PdfRealWrite(self) == self.data

PdfBoolWrite(self) ==
    IF self.data THEN <<"t", "r", "u", "e">> ELSE <<"f", "a", "l", "s", "e">>

\* the loop of PdfArray::write from index i on
RECURSIVE ArrayWriteLoop(_, _)
ArrayWriteLoop(objs, i) ==
    IF i > Len(objs) THEN <<>>
    ELSE Write(objs[i]) \o <<" ">> \o ArrayWriteLoop(objs, i + 1)

PdfArrayWrite(self) ==
    <<"[", " ">> \o ArrayWriteLoop(self.objects, 1) \o <<"]">>

\* the loop of PdfDict::write over the map, in the map's order, from i on
RECURSIVE DictWriteLoop(_, _)
DictWriteLoop(ps, i) ==
    IF i > Len(ps) THEN <<>>
    ELSE PdfNameWrite(ps[i].first) \o <<" ">> \o Write(ps[i].second) \o <<" ">>
             \o DictWriteLoop(ps, i + 1)

PdfDictWrite(self) ==
    <<"<", "<", " ">> \o DictWriteLoop(self.pairs, 1) \o <<">", ">">>

PdfStreamWrite(self) ==
    PdfDictWrite(self.dict)
        \o <<"\n", "s", "t", "r", "e", "a", "m", "\n">>
        \o self.stream
        \o <<"\n", "e", "n", "d", "s", "t", "r", "e", "a", "m", "\n">>

PdfRefWrite(self) ==
    IntText(self.num) \o <<" ">> \o IntText(self.gen) \o <<" ", "R">>

PdfTopLevelWrite(self) ==
    IntText(self.num) \o <<" ">> \o IntText(self.gen)
        \o <<" ", "o", "b", "j", "\n">>
        \o Write(self.obj)
        \o <<"\n", "e", "n", "d", "o", "b", "j", "\n">>

\* the virtual call  self.write(os)
Write(self) ==
    CASE self.cls = "PdfNull" -> PdfNullWrite(self)
      [] self.cls = "PdfString" -> PdfStringWrite(self)
      [] self.cls = "PdfName" -> PdfNameWrite(self)
      [] self.cls = "PdfInt" -> PdfIntWrite(self)
      [] self.cls = "PdfReal" -> PdfRealWrite(self)
      [] self.cls = "PdfBool" -> PdfBoolWrite(self)
      [] self.cls = "PdfArray" -> PdfArrayWrite(self)
      [] self.cls = "PdfDict" -> PdfDictWrite(self)
      [] self.cls = "PdfStream" -> PdfStreamWrite(self)
      [] self.cls = "PdfRef" -> PdfRefWrite(self)
      [] self.cls = "PdfTopLevel" -> PdfTopLevelWrite(self)

----------------------------------------------------------------------------
(* The parser.  The header declares its functions; their bodies follow the *)
(* design of the parser: a recursive descent over the bytes is of the      *)
(* stream from cursor p (the number of bytes already read).  A call        *)
(* returns [ok, obj, pos]: whether it returned an object, the object, and  *)
(* the cursor it left.  A hard failure (ok = FALSE) aborts every enclosing *)
(* call.  Streams with a /Filter entry are outside the model.              *)

Whitespace == {"NUL", "\t", "\n", "\f", "\r", " "}
Delimiters == {"(", ")", "<", ">", "[", "]", "{", "}", "/", "%"}

ends_name(ch) == ch \in Whitespace \/ ch \in Delimiters
valid_name_char(ch) == ~ends_name(ch)

AtEnd(is, p) == p >= Len(is)
Peek(is, p) == is[p + 1]

\* the bytes at the cursor are those of lit
Literal(is, p, lit) ==
    /\ p + Len(lit) <= Len(is)
    /\ SubSeq(is, p + 1, p + Len(lit)) = lit

Failure(p) == [ok |-> FALSE, obj |-> PdfNull, pos |-> p]
Success(o, p) == [ok |-> TRUE, obj |-> o, pos |-> p]

RECURSIVE skip_whitespace(_, _)
skip_whitespace(is, p) ==
    IF ~AtEnd(is, p) /\ Peek(is, p) \in Whitespace
    THEN skip_whitespace(is, p + 1)
    ELSE p

\* get_name_token: the cursor after the bytes of the name that starts at p
RECURSIVE NameEnd(_, _)
NameEnd(is, p) ==
    IF ~AtEnd(is, p) /\ valid_name_char(Peek(is, p))
    THEN NameEnd(is, p + 1)
    ELSE p

get_name_token(is, p) == SubSeq(is, p + 1, NameEnd(is, p))

\* parse_pdf_name_obj: the '/' at the cursor, then the name token
parse_pdf_name_obj(is, p) ==
    IF ~AtEnd(is, p) /\ Peek(is, p) = "/"
    THEN Success(PdfName(get_name_token(is, p + 1)), NameEnd(is, p + 1))
    ELSE Failure(p)

IsDigit(c) == \E i \in 1..Len(Digits) : Digits[i] = c
NumericChars == {"+", "-", "."}

\* the cursor after the maximal numeric token that starts at p
RECURSIVE NumericEnd(_, _)
NumericEnd(is, p) ==
    IF ~AtEnd(is, p) /\ (IsDigit(Peek(is, p)) \/ Peek(is, p) \in NumericChars)
    THEN NumericEnd(is, p + 1)
    ELSE p

Unsigned(tok) ==
    IF tok # <<>> /\ Head(tok) \in {"+", "-"} THEN Tail(tok) ELSE tok

\* the strict parse of an integer: an optional sign, then digits only
ValidInt(tok) ==
    /\ Unsigned(tok) # <<>>
    /\ \A i \in 1..Len(Unsigned(tok)) : IsDigit(Unsigned(tok)[i])

\* the strict parse of a real: an optional sign, then digits around one '.'
ValidReal(tok) ==
    LET u == Unsigned(tok)
    IN  /\ \E i \in 1..Len(u) : IsDigit(u[i])
        /\ Cardinality({i \in 1..Len(u) : u[i] = "."}) = 1
        /\ \A i \in 1..Len(u) : IsDigit(u[i]) \/ u[i] = "."

RECURSIVE NatValue(_)
NatValue(ds) ==
    IF ds = <<>> THEN 0
    ELSE 10 * NatValue(SubSeq(ds, 1, Len(ds) - 1))
            + (Ord(ds[Len(ds)]) - Ord("0"))

IntValue(tok) ==
    IF Head(tok) = "-" THEN -NatValue(Unsigned(tok)) ELSE NatValue(Unsigned(tok))

\* the double a valid real token denotes, as its decimal text: no '+', and a
\* digit before the '.'
RealValue(tok) ==
    LET u == Unsigned(tok)
        v == IF Head(u) = "." THEN <<"0">> \o u ELSE u
    IN  IF Head(tok) = "-" THEN <<"-">> \o v ELSE v

\* parse_int: [ok, val, pos]; a token that is no integer is an ordinary
\* outcome, not a hard failure
parse_int(is, p) ==
    LET e == NumericEnd(is, p)
        tok == SubSeq(is, p + 1, e)
    IN  IF ValidInt(tok) THEN [ok |-> TRUE, val |-> IntValue(tok), pos |-> e]
        ELSE [ok |-> FALSE, val |-> 0, pos |-> e]

parse_double(is, p) ==
    LET e == NumericEnd(is, p)
        tok == SubSeq(is, p + 1, e)
    IN  IF ValidReal(tok) THEN [ok |-> TRUE, val |-> RealValue(tok), pos |-> e]
        ELSE [ok |-> FALSE, val |-> NaN, pos |-> e]

parse_pdf_int_or_real(is, p) ==
    LET i == parse_int(is, p)
        d == parse_double(is, p)
    IN  IF i.ok THEN Success(PdfInt(i.val), i.pos)
        ELSE IF d.ok THEN Success(PdfReal(d.val), d.pos)
        ELSE Failure(p)

\* the cursor after the ')' that balances the '(' before p, 0 when none does
RECURSIVE StringEnd(_, _, _)
StringEnd(is, p, depth) ==
    IF AtEnd(is, p) THEN 0
    ELSE IF Peek(is, p) = "(" THEN StringEnd(is, p + 1, depth + 1)
    ELSE IF Peek(is, p) = ")"
         THEN IF depth = 0 THEN p + 1 ELSE StringEnd(is, p + 1, depth - 1)
    ELSE StringEnd(is, p + 1, depth)

parse_pdf_string(is, p) ==
    LET e == StringEnd(is, p + 1, 0)
    IN  IF e = 0 THEN Failure(p)
        ELSE Success(PdfString(SubSeq(is, p + 2, e - 1)), e)

RECURSIVE parse_pdf_obj(_, _)

\* the loop of parse_pdf_array after the '[': objs are the elements so far
RECURSIVE ArrayItems(_, _, _)
ArrayItems(is, p, objs) ==
    LET q == skip_whitespace(is, p)
        r == parse_pdf_obj(is, q)
    IN  IF AtEnd(is, q) THEN Failure(q)
        ELSE IF Peek(is, q) = "]" THEN Success(PdfArray(objs), q + 1)
        ELSE IF ~r.ok THEN Failure(r.pos)
        ELSE ArrayItems(is, r.pos, Append(objs, r.obj))

parse_pdf_array(is, p) == ArrayItems(is, p + 1, <<>>)

\* the loop of parse_pdf_dict after the '<<': ps is the map so far
RECURSIVE DictItems(_, _, _)
DictItems(is, p, ps) ==
    LET q == skip_whitespace(is, p)
        key == parse_pdf_name_obj(is, q)
        v == parse_pdf_obj(is, skip_whitespace(is, key.pos))
    IN  IF Literal(is, q, <<">", ">">>) THEN Success(PdfDict(ps), q + 2)
        ELSE IF ~key.ok THEN Failure(q)
        ELSE IF ~v.ok THEN Failure(v.pos)
        ELSE DictItems(is, v.pos, MapAssign(ps, key.obj, v.obj))

parse_pdf_dict(is, p) == DictItems(is, p + 2, <<>>)

KwStream == <<"s", "t", "r", "e", "a", "m">>
KwEndstream == <<"e", "n", "d">> \o KwStream
KwObj == <<"o", "b", "j">>
KwEndobj == <<"e", "n", "d">> \o KwObj
NameLength == PdfName(<<"L", "e", "n", "g", "t", "h">>)

\* the cursor after the end-of-line marker that follows `stream`, 0 if none
AfterEol(is, p) ==
    IF Literal(is, p, <<"\r", "\n">>) THEN p + 2
    ELSE IF Literal(is, p, <<"\n">>) THEN p + 1
    ELSE 0

\* parse_pdf_content_stream: the body of the stream of dictionary d, from the
\* cursor after the keyword `stream`
parse_pdf_content_stream(is, p, d) ==
    LET body == AfterEol(is, p)
        it == MapFind(d.pairs, NameLength)
        len == d.pairs[it].second
        e == skip_whitespace(is, body + len.data)
    IN  IF body = 0 THEN Failure(p)
        ELSE IF it = 0 \/ ~IsA(len, "PdfInt") THEN Failure(body)
        ELSE IF len.data < 0 \/ body + len.data > Len(is) THEN Failure(body)
        ELSE IF ~Literal(is, e, KwEndstream) THEN Failure(e)
        ELSE Success(PdfStream(d, SubSeq(is, body + 1, body + len.data)),
                     e + Len(KwEndstream))

\* a dictionary, and the stream it opens when the keyword `stream` follows
parse_pdf_dict_or_stream(is, p) ==
    LET d == parse_pdf_dict(is, p)
        q == skip_whitespace(is, d.pos)
    IN  IF ~d.ok THEN d
        ELSE IF Literal(is, q, KwStream)
             THEN parse_pdf_content_stream(is, q + Len(KwStream), d.obj)
        ELSE d

parse_pdf_num_no_endobj(is, p) ==
    LET first == parse_pdf_int_or_real(is, p)
        second == parse_int(is, skip_whitespace(is, first.pos))
        q == skip_whitespace(is, second.pos)
        v == parse_pdf_obj(is, q + Len(KwObj))
    IN  IF ~first.ok THEN first
        ELSE IF ~IsA(first.obj, "PdfInt") THEN first
        ELSE IF ~second.ok THEN first
        ELSE IF Literal(is, q, <<"R">>)
             THEN Success(PdfRef(first.obj.data, second.val), q + 1)
        ELSE IF Literal(is, q, KwObj)
             THEN IF ~v.ok THEN Failure(v.pos)
                  ELSE Success(PdfTopLevel(first.obj.data, second.val, v.obj), v.pos)
        ELSE first
parse_pdf_num_no_restore(is, p) ==
    LET first == parse_pdf_int_or_real(is, p)
        second == parse_int(is, skip_whitespace(is, first.pos))
        q == skip_whitespace(is, second.pos)
        v == parse_pdf_obj(is, q + Len(KwObj))
        e == skip_whitespace(is, v.pos)
    IN  IF ~first.ok THEN first
        ELSE IF ~IsA(first.obj, "PdfInt") THEN first
        ELSE IF ~second.ok THEN Success(first.obj, second.pos)
        ELSE IF Literal(is, q, <<"R">>)
             THEN Success(PdfRef(first.obj.data, second.val), q + 1)
        ELSE IF Literal(is, q, KwObj)
             THEN IF ~v.ok THEN Failure(v.pos)
                  ELSE IF ~Literal(is, e, KwEndobj) THEN Failure(e)
                  ELSE Success(PdfTopLevel(first.obj.data, second.val, v.obj),
                               e + Len(KwEndobj))
        ELSE Success(first.obj, q)
\* the number production: a Real, or an Integer that the lookahead may
\* extend to a reference (N G R) or an indirect object (N G obj ... endobj);
\* a rejected lookahead returns the Integer with the cursor after its token
parse_pdf_num_ref_or_top_level(is, p) ==
    LET first == parse_pdf_int_or_real(is, p)
        second == parse_int(is, skip_whitespace(is, first.pos))
        q == skip_whitespace(is, second.pos)
        v == parse_pdf_obj(is, q + Len(KwObj))
        e == skip_whitespace(is, v.pos)
    IN  IF ~first.ok THEN first
        ELSE IF ~IsA(first.obj, "PdfInt") THEN first
        ELSE IF ~second.ok THEN first
        ELSE IF Literal(is, q, <<"R">>)
             THEN Success(PdfRef(first.obj.data, second.val), q + 1)
        ELSE IF Literal(is, q, KwObj)
             THEN IF ~v.ok THEN Failure(v.pos)
                  ELSE IF ~Literal(is, e, KwEndobj) THEN Failure(e)
                  ELSE Success(PdfTopLevel(first.obj.data, second.val, v.obj),
                               e + Len(KwEndobj))
        ELSE first

\* parse_pdf_obj: skip whitespace, then dispatch on the bytes at the cursor
parse_pdf_obj(is, p) ==
    LET q == skip_whitespace(is, p)
    IN  IF AtEnd(is, q) THEN Failure(q)
        ELSE IF Peek(is, q) = "/" THEN parse_pdf_name_obj(is, q)
        ELSE IF Peek(is, q) = "(" THEN parse_pdf_string(is, q)
        ELSE IF Literal(is, q, <<"<", "<">>) THEN parse_pdf_dict_or_stream(is, q)
        ELSE IF Peek(is, q) = "[" THEN parse_pdf_array(is, q)
        ELSE IF IsDigit(Peek(is, q)) \/ Peek(is, q) \in NumericChars
             THEN parse_pdf_num_ref_or_top_level(is, q)
        ELSE IF Literal(is, q, <<"n", "u", "l", "l">>) THEN Success(PdfNull, q + 4)
        ELSE IF Literal(is, q, <<"t", "r", "u", "e">>)
             THEN Success(PdfBool(TRUE), q + 4)
        ELSE IF Literal(is, q, <<"f", "a", "l", "s", "e">>)
             THEN Success(PdfBool(FALSE), q + 5)
        ELSE Failure(q)

----------------------------------------------------------------------------
(* The values the operations are applied to.                               *)

Ints == 0..MaxInt

NameA == PdfName(<<"A">>)
NameB == PdfName(<<"B">>)
Keys == {NameA, NameB}

\* the sequences over S of length at most n
SeqsUpTo(S, n) == UNION {[1..k -> S] : k \in 0..n}

\* one value or more of every class without children
Atoms ==
    {PdfNull, PdfBool(TRUE), PdfReal(<<"0", ".", "5">>), PdfReal(NaN),
     PdfString(<<"a">>), NameA}
        \cup {PdfInt(i) : i \in Ints} \cup {PdfRef(i, 0) : i \in Ints}

\* the children of the containers
Elems == {PdfNull, PdfArray(<<>>), PdfDict(<<>>)} \cup {PdfInt(i) : i \in Ints}

\* the dictionary made by inserting the pairs of ins, in that order
RECURSIVE DictOf(_)
DictOf(ins) ==
    IF ins = <<>> THEN <<>>
    ELSE LET n == Len(ins)
         IN  MapInsert(DictOf(SubSeq(ins, 1, n - 1)), ins[n][1], ins[n][2])

Arrays == {PdfArray(s) : s \in SeqsUpTo(Elems, MaxLen)}
Dicts == {PdfDict(DictOf(ins)) : ins \in SeqsUpTo(Keys \X Elems, Cardinality(Keys))}
Streams ==
    {PdfStream(PdfDict(DictOf(ins)), bytes) :
        ins \in SeqsUpTo({NameA} \X {PdfNull}, 1), bytes \in {<<>>, <<"a">>}}
TopLevels == {PdfTopLevel(i, 0, o) : i \in Ints, o \in {PdfNull, PdfArray(<<>>)}}

Operands == Atoms \cup Arrays \cup Dicts \cup Streams \cup TopLevels

----------------------------------------------------------------------------
(* Values of the variables an operation has not touched.                   *)

NoCmp == [done |-> FALSE, eq |-> FALSE, rev |-> FALSE, ne |-> FALSE]
NoText == <<>>
NoOut == [done |-> FALSE, text |-> <<>>]
NoRes == [called |-> FALSE, ok |-> FALSE, obj |-> PdfNull]
NoHeap == <<>>

----------------------------------------------------------------------------
(* Comparing two values: a test constructs a and b and evaluates a == b,   *)
(* b == a and a != b.                                                      *)

InitEq ==
    /\ a \in Operands
    /\ b \in Operands
    /\ cmp = NoCmp
    /\ log = <<>> /\ os = NoOut
    /\ buf = NoText /\ pos = 0 /\ start = 0 /\ res = NoRes
    /\ heap = NoHeap /\ deleted = <<>>

Compare ==
    /\ ~cmp.done
    /\ cmp' = [done |-> TRUE, eq |-> Eq(a, b), rev |-> Eq(b, a), ne |-> Ne(a, b)]
    /\ UNCHANGED <<a, b, log, os, buf, pos, start, res, heap, deleted>>

NextEq == Compare

SpecEq == InitEq /\ [][NextEq]_vars

----------------------------------------------------------------------------
(* Parsing: a caller holds a stream of bytes and calls parse_pdf_obj on it *)
(* again and again, each call starting where the one before stopped.  The  *)
(* streams are texts of tokens separated by single spaces.                 *)

TkNull == <<"n", "u", "l", "l">>
TkR == <<"R">>
TkOpen == <<"[">>
TkClose == <<"]">>
TkDictOpen == <<"<", "<">>
TkDictClose == <<">", ">">>
TkIntegers == {<<"5">>, <<"0">>}

Alphabet ==
    TkIntegers \cup {TkR, KwObj, KwEndobj, TkNull, TkOpen, TkClose,
                     TkDictOpen, TkDictClose, <<"/", "A">>}

\* the tokens of ts, in order, with one space between neighbours
RECURSIVE Join(_)
Join(ts) ==
    IF ts = <<>> THEN <<>>
    ELSE IF Len(ts) = 1 THEN ts[1]
    ELSE ts[1] \o <<" ">> \o Join(Tail(ts))

RECURSIVE Flatten(_)
Flatten(tss) == IF tss = <<>> THEN <<>> ELSE Head(tss) \o Flatten(Tail(tss))

\* every text of at most MaxTokens tokens
AnyTexts == {Join(ts) : ts \in SeqsUpTo(Alphabet, MaxTokens)}

\* N G, then R or obj or something else, then a value or none, then endobj
\* or something else or nothing
NumberTexts ==
    {Join(<<n, g, t>> \o v \o c) :
        n \in TkIntegers, g \in TkIntegers, t \in {TkR, KwObj, TkNull},
        v \in {<<>>, <<TkNull>>, <<<<"5">>>>, <<TkOpen, TkClose>>,
               <<<<"5">>, <<"0">>, TkR>>},
        c \in {<<>>, <<KwEndobj>>, <<TkClose>>, <<KwEndobj, <<"5">>>>}}

\* <<, then at most MaxPairs key/value pairs, then >> or not
DictTexts ==
    {Join(<<TkDictOpen>> \o Flatten(kvs) \o c) :
        kvs \in SeqsUpTo({<<k, v>> : k \in {<<"/", "A">>, <<"/", "B">>},
                                     v \in {<<"1">>, <<"2">>, TkNull}},
                         MaxPairs),
        c \in {<<>>, <<TkDictClose>>, <<TkDictClose, <<"5">>>>}}

\* a dictionary with /Length 1, the keyword stream, and a body of one or
\* two bytes, closed by endstream or not
StreamTexts ==
    {Join(<<TkDictOpen, <<"/">> \o NameLength.data, <<"1">>, TkDictClose>>)
        \o eol \o body \o <<"\n">> \o c :
        eol \in {<<" ">> \o KwStream \o <<"\n">>,
                 <<"\n">> \o KwStream \o <<"\r", "\n">>,
                 <<" ">> \o KwStream \o <<" ">>},
        body \in {<<"a">>, <<"a", "b">>},
        c \in {KwEndstream, KwEndobj, <<>>}}

Inputs == AnyTexts \cup NumberTexts \cup DictTexts \cup StreamTexts

InitParse ==
    /\ buf \in Inputs
    /\ pos = 0 /\ start = 0 /\ res = NoRes
    /\ a = PdfNull /\ b = PdfNull /\ cmp = NoCmp
    /\ log = <<>> /\ os = NoOut
    /\ heap = NoHeap /\ deleted = <<>>

\* one call of parse_pdf_obj(is); after a hard failure, or at the end of the
\* stream, the caller stops
ParseObj ==
    /\ res.called => res.ok
    /\ ~AtEnd(buf, pos)
    /\ LET r == parse_pdf_obj(buf, pos)
       IN  /\ res' = [called |-> TRUE, ok |-> r.ok, obj |-> r.obj]
           /\ pos' = r.pos
    /\ start' = pos
    /\ UNCHANGED <<a, b, cmp, log, os, buf, heap, deleted>>

NextParse == ParseObj

SpecParse == InitParse /\ [][NextParse]_vars

----------------------------------------------------------------------------
(* Writing: a test constructs a value, growing an array with push_back and *)
(* a dictionary by inserting under keys it does not hold yet, writes it to *)
(* a string stream, and parses the text that was written.                  *)

NameAB == PdfName(<<"A", "B">>)
WriteKeys == {NameA, NameAB, NameB}
WriteElems == {PdfNull, PdfArray(<<>>)} \cup {PdfInt(i) : i \in Ints}
WriteSeeds ==
    {PdfNull, PdfBool(TRUE), PdfBool(FALSE), PdfString(<<"a">>),
     NameA, PdfInt(-1), PdfArray(<<>>), PdfDict(<<>>)}
        \cup {PdfInt(i) : i \in Ints} \cup {PdfRef(i, 0) : i \in Ints}

InitWrite ==
    /\ a \in WriteSeeds
    /\ log = <<>> /\ os = NoOut
    /\ buf = NoText /\ pos = 0 /\ start = 0 /\ res = NoRes
    /\ b = PdfNull /\ cmp = NoCmp
    /\ heap = NoHeap /\ deleted = <<>>

\* a.objects.push_back(x)
PushBack(x) ==
    /\ IsA(a, "PdfArray") /\ ~os.done
    /\ Len(a.objects) < MaxLen
    /\ a' = PdfArray(Append(a.objects, x))
    /\ UNCHANGED <<b, cmp, log, os, buf, pos, start, res, heap, deleted>>

\* a.pairs.insert({k, x}) for a key k that a does not hold
Insert(k, x) ==
    /\ IsA(a, "PdfDict") /\ ~os.done
    /\ \A i \in 1..Len(log) : log[i][1] # k
    /\ a' = PdfDict(MapInsert(a.pairs, k, x))
    /\ log' = Append(log, <<k, x>>)
    /\ UNCHANGED <<b, cmp, os, buf, pos, start, res, heap, deleted>>

\* a.write(os)
WriteObj ==
    /\ ~os.done
    /\ os' = [done |-> TRUE, text |-> Write(a)]
    /\ UNCHANGED <<a, b, cmp, log, buf, pos, start, res, heap, deleted>>

\* std::istringstream is(os.str()); parse_pdf_obj(is)
ParseBack ==
    /\ os.done /\ ~res.called
    /\ buf' = os.text
    /\ LET r == parse_pdf_obj(os.text, 0)
       IN  /\ res' = [called |-> TRUE, ok |-> r.ok, obj |-> r.obj]
           /\ pos' = r.pos
    /\ start' = 0
    /\ UNCHANGED <<a, b, cmp, log, os, heap, deleted>>

NextWrite ==
    \/ \E x \in WriteElems : PushBack(x)
    \/ \E k \in WriteKeys, x \in WriteElems : Insert(k, x)
    \/ WriteObj
    \/ ParseBack

SpecWrite == InitWrite /\ [][NextWrite]_vars

----------------------------------------------------------------------------
(* Teardown: objects are allocated bottom-up, a composite taking ownership *)
(* of objects that no other composite owns, and then the owner of a tree   *)
(* deletes its root.  heap[x] is the object at address x: its class and    *)
(* kids, the addresses its pointer members hold.                           *)

\* the most objects that are allocated
MaxNodes == 4

Addresses == 1..Len(heap)
Owned(x) == \E y \in Addresses : \E i \in 1..Len(heap[y].kids) : heap[y].kids[i] = x
Roots == {x \in Addresses : ~Owned(x)}
Untouched == \A x \in Addresses : deleted[x] = 0

\* the sequence of the members of the set S of addresses, ascending
RECURSIVE Ascending(_)
Ascending(S) ==
    IF S = {} THEN <<>>
    ELSE LET m == CHOOSE x \in S : \A y \in S : x <= y
         IN  <<m>> \o Ascending(S \ {m})

InitHeap ==
    /\ heap = NoHeap /\ deleted = <<>>
    /\ a = PdfNull /\ b = PdfNull /\ cmp = NoCmp
    /\ log = <<>> /\ os = NoOut
    /\ buf = NoText /\ pos = 0 /\ start = 0 /\ res = NoRes

\* new C with the pointers kids
New(c, kids) ==
    /\ Len(heap) < MaxNodes /\ Untouched
    /\ heap' = Append(heap, [cls |-> c, kids |-> kids])
    /\ deleted' = Append(deleted, 0)
    /\ UNCHANGED <<a, b, cmp, log, os, buf, pos, start, res>>

NewScalar == \E c \in {"PdfNull", "PdfInt"} : New(c, <<>>)
NewArray == \E S \in SUBSET Roots : New("PdfArray", Ascending(S))
NewDict == \E S \in SUBSET Roots : Cardinality(S) <= 2 /\ New("PdfDict", Ascending(S))
NewStream == \E d \in Roots : heap[d].cls = "PdfDict" /\ New("PdfStream", <<d>>)
NewTopLevel == \E o \in Roots : New("PdfTopLevel", <<o>>)

\* the pointers the destructor of the object at x deletes: ~PdfArray its
\* objects, ~PdfStream its dict, ~PdfTopLevel its obj; PdfDict declares no
\* destructor, and the one the compiler makes destroys the map, which
\* deletes nothing its pointers point to
DestructorDeletes(x) ==
    CASE heap[x].cls = "PdfArray" -> heap[x].kids
      [] heap[x].cls = "PdfStream" -> heap[x].kids
      [] heap[x].cls = "PdfTopLevel" -> heap[x].kids
      [] OTHER -> <<>>

\* the addresses delete runs on, in order, when delete runs on x
RECURSIVE DeleteOrder(_)
RECURSIVE DeleteAll(_)
DeleteAll(xs) ==
    IF xs = <<>> THEN <<>> ELSE DeleteOrder(Head(xs)) \o DeleteAll(Tail(xs))
DeleteOrder(x) == <<x>> \o DeleteAll(DestructorDeletes(x))

\* delete root
DeleteRoot ==
    /\ Untouched
    /\ \E r \in Roots :
          deleted' = [x \in Addresses |->
                         Cardinality({i \in 1..Len(DeleteOrder(r)) :
                                         DeleteOrder(r)[i] = x})]
    /\ UNCHANGED <<heap, a, b, cmp, log, os, buf, pos, start, res>>

NextHeap ==
    \/ NewScalar
    \/ NewArray
    \/ NewDict
    \/ NewStream
    \/ NewTopLevel
    \/ DeleteRoot

SpecHeap == InitHeap /\ [][NextHeap]_vars

----------------------------------------------------------------------------
(* Properties of operator==, checked under SpecEq.                         *)

\* C1: two values of different classes never compare equal: whenever a and
\* b are of different classes, a == b has returned false.
C1_CrossVariantNeverEqual ==
    (cmp.done /\ a.cls # b.cls) => ~cmp.eq

\* the entry of dictionary d stored under the key of entry p
EntriesUnder(d, p) ==
    {j \in 1..Len(d.pairs) : d.pairs[j].first.data = p.first.data}

C10_Symmetric ==
    cmp.done => (cmp.eq = cmp.rev /\ cmp.ne = ~cmp.eq)

----------------------------------------------------------------------------
(* Properties of the parser, checked under SpecParse.  They are stated on  *)
(* the words of the stream: its maximal runs of bytes that are no          *)
(* whitespace, each with the cursor after its last byte.                   *)

RECURSIVE WordEnd(_, _)
WordEnd(s, p) ==
    IF p >= Len(s) \/ s[p + 1] \in Whitespace THEN p ELSE WordEnd(s, p + 1)

\* the words of s that start at cursor p or later
RECURSIVE Words(_, _)
Words(s, p) ==
    IF p >= Len(s) THEN <<>>
    ELSE IF s[p + 1] \in Whitespace THEN Words(s, p + 1)
    ELSE <<[text |-> SubSeq(s, p + 1, WordEnd(s, p)), to |-> WordEnd(s, p)]>>
             \o Words(s, WordEnd(s, p))

\* the words the last call of parse_pdf_obj started on
Ahead == Words(buf, start)

IsIntWord(w) == \E i \in 0..9 : w.text = IntText(i)
IntOfWord(w) == CHOOSE i \in 0..9 : w.text = IntText(i)

\* the words ahead start  N G R / N G obj / N followed by neither
StartsInteger == Ahead # <<>> /\ IsIntWord(Ahead[1])
StartsPair == StartsInteger /\ Len(Ahead) >= 2 /\ IsIntWord(Ahead[2])
StartsReference == StartsPair /\ Len(Ahead) >= 3 /\ Ahead[3].text = TkR
StartsIndirect == StartsPair /\ Len(Ahead) >= 3 /\ Ahead[3].text = KwObj
StartsPlainInteger == StartsInteger /\ ~StartsReference /\ ~StartsIndirect

\* the object a one-word or two-word value denotes: null, an integer that
\* no integer follows, or [ ]
SimpleValueAt(i) ==
    IF Ahead[i].text = TkNull THEN [n |-> 1, obj |-> [cls |-> "PdfNull"]]
    ELSE IF IsIntWord(Ahead[i])
         THEN [n |-> 1, obj |-> [cls |-> "PdfInt", data |-> IntOfWord(Ahead[i])]]
    ELSE [n |-> 2, obj |-> [cls |-> "PdfArray", objects |-> <<>>]]

HasSimpleValueAt(i) ==
    /\ Len(Ahead) >= i
    /\ \/ Ahead[i].text = TkNull
       \/ IsIntWord(Ahead[i]) /\ (Len(Ahead) > i => ~IsIntWord(Ahead[i + 1]))
       \/ Len(Ahead) > i /\ Ahead[i].text = TkOpen /\ Ahead[i + 1].text = TkClose

\* the word endobj follows the simple value at word 4
ClosedIndirect ==
    /\ StartsIndirect /\ HasSimpleValueAt(4)
    /\ Len(Ahead) >= 4 + SimpleValueAt(4).n
    /\ Ahead[4 + SimpleValueAt(4).n].text = KwEndobj

\* C3: "N G R" parses to the reference (N, G); "N G obj <value> endobj"
\* parses to the indirect object (N, G, value); an integer N that a second
\* integer and then R or obj do not follow parses to the integer N.
C3_NumberAmbiguity ==
    res.called =>
        /\ StartsReference =>
              /\ res.ok
              /\ res.obj = [cls |-> "PdfRef", num |-> IntOfWord(Ahead[1]),
                            gen |-> IntOfWord(Ahead[2])]
        /\ ClosedIndirect =>
              /\ res.ok
              /\ res.obj = [cls |-> "PdfTopLevel", num |-> IntOfWord(Ahead[1]),
                            gen |-> IntOfWord(Ahead[2]),
                            obj |-> SimpleValueAt(4).obj]
        /\ StartsPlainInteger =>
              /\ res.ok
              /\ res.obj = [cls |-> "PdfInt", data |-> IntOfWord(Ahead[1])]

\* "5 0 obj <value> endobj" has been parsed to an indirect object whose
\* numbers differ
C3_Witness ==
    /\ res.called /\ res.ok /\ ClosedIndirect
    /\ IsA(res.obj, "PdfTopLevel") /\ res.obj.num # res.obj.gen

\* the number of words of the syntax of an object without dictionaries
RECURSIVE WordCount(_)
RECURSIVE WordCountAll(_)
WordCountAll(objs) ==
    IF objs = <<>> THEN 0 ELSE WordCount(Head(objs)) + WordCountAll(Tail(objs))
WordCount(o) ==
    CASE IsA(o, "PdfRef") -> 3
      [] IsA(o, "PdfArray") -> 2 + WordCountAll(o.objects)
      [] IsA(o, "PdfTopLevel") -> 4 + WordCount(o.obj)
      [] OTHER -> 1

RECURSIVE HoldsDict(_)
HoldsDict(o) ==
    CASE IsA(o, "PdfDict") \/ IsA(o, "PdfStream") -> TRUE
      [] IsA(o, "PdfArray") -> \E i \in 1..Len(o.objects) : HoldsDict(o.objects[i])
      [] IsA(o, "PdfTopLevel") -> HoldsDict(o.obj)
      [] OTHER -> FALSE

\* the word that closes the syntax of an object of class c
Closer(o) ==
    CASE IsA(o, "PdfDict") -> TkDictClose
      [] IsA(o, "PdfStream") -> KwEndstream
      [] IsA(o, "PdfArray") -> TkClose
      [] IsA(o, "PdfTopLevel") -> KwEndobj
      [] IsA(o, "PdfRef") -> TkR

\* C4: when the number production reads an integer and rejects the longer
\* forms, the cursor is left right after the integer's token; and every
\* successful call leaves the cursor right after the last word of the
\* syntax of the object it returned.
C4_CursorDiscipline ==
    (res.called /\ res.ok) =>
        /\ StartsPlainInteger => pos = Ahead[1].to
        /\ ~HoldsDict(res.obj) =>
              /\ Len(Ahead) >= WordCount(res.obj)
              /\ pos = Ahead[WordCount(res.obj)].to
        /\ res.obj.cls \in {"PdfDict", "PdfStream", "PdfArray", "PdfTopLevel", "PdfRef"} =>
              \E k \in 1..Len(Ahead) :
                  Ahead[k].to = pos /\ Ahead[k].text = Closer(res.obj)

\* a second integer followed the first and the word after it was neither R
\* nor obj: the lookahead was rejected and the integer returned
C4_Witness ==
    /\ res.called /\ res.ok
    /\ StartsPair /\ StartsPlainInteger /\ Len(Ahead) >= 3
    /\ IsA(res.obj, "PdfInt") /\ pos = Ahead[1].to

\* the words ahead are << k1 v1 ... kn vn >> with one-word values, and the
\* keyword stream does not follow
IsKeyWord(w) == Len(w.text) > 1 /\ w.text[1] = "/"
IsValueWord(w) == w.text = TkNull \/ IsIntWord(w)
FlatDictLen(n) ==
    /\ Len(Ahead) >= 2 * n + 2
    /\ Ahead[1].text = TkDictOpen
    /\ Ahead[2 * n + 2].text = TkDictClose
    /\ Len(Ahead) > 2 * n + 2 => Ahead[2 * n + 3].text # KwStream
    /\ \A i \in 1..n : IsKeyWord(Ahead[2 * i]) /\ IsValueWord(Ahead[2 * i + 1])
IsFlatDict == \E n \in 0..MaxPairs : FlatDictLen(n)
PairCount == CHOOSE n \in 0..MaxPairs : FlatDictLen(n)
KeyAt(i) == Tail(Ahead[2 * i].text)
ValueAt(i) == SimpleValueAt(2 * i + 1).obj
\* pair i is the last pair of the input with its key
IsLast(i) == \A j \in (i + 1)..PairCount : KeyAt(j) # KeyAt(i)

\* C6: the dictionary parsed from << k1 v1 ... kn vn >> holds one entry for
\* every distinct key of the input and no other, and the value of each is
\* the value of the key's last occurrence.
C6_DictLastWins ==
    (res.called /\ IsFlatDict) =>
        /\ res.ok /\ IsA(res.obj, "PdfDict")
        /\ Len(res.obj.pairs) = Cardinality({KeyAt(i) : i \in 1..PairCount})
        /\ \A i \in 1..PairCount :
              IsLast(i) =>
                  \E j \in 1..Len(res.obj.pairs) :
                      /\ res.obj.pairs[j].first.data = KeyAt(i)
                      /\ res.obj.pairs[j].second = ValueAt(i)
                      /\ \A m \in 1..Len(res.obj.pairs) :
                            res.obj.pairs[m].first.data = KeyAt(i) => m = j

\* a dictionary whose input gave the same key twice, with different values,
\* has been parsed
C6_Witness ==
    /\ res.called /\ res.ok /\ IsFlatDict /\ PairCount >= 2
    /\ KeyAt(1) = KeyAt(2) /\ ValueAt(1) # ValueAt(2)
    /\ Len(res.obj.pairs) = 1

\* no word w is ahead
NoWord(w) == \A i \in 1..Len(Ahead) : Ahead[i].text # w

\* C7: a structure that is not closed is a failure: N G obj <value> that
\* endobj does not follow, an array without ], a dictionary without >>, a
\* stream without endstream; and every indirect object, array, dictionary
\* or stream that is returned was closed by the word under the cursor.
C7_UnclosedFails ==
    res.called =>
        /\ (StartsIndirect /\ HasSimpleValueAt(4) /\ ~ClosedIndirect) => ~res.ok
        /\ (StartsIndirect /\ NoWord(KwEndobj)) => ~res.ok
        /\ (Ahead # <<>> /\ Ahead[1].text = TkOpen /\ NoWord(TkClose)) => ~res.ok
        /\ (Ahead # <<>> /\ Ahead[1].text = TkDictOpen /\ NoWord(TkDictClose))
              => ~res.ok
        /\ (Ahead # <<>> /\ Ahead[1].text = TkDictOpen
                /\ ~NoWord(KwStream) /\ NoWord(KwEndstream)) => ~res.ok
        /\ (res.ok /\ res.obj.cls \in {"PdfDict", "PdfStream", "PdfArray", "PdfTopLevel"}) =>
              \E k \in 1..Len(Ahead) :
                  Ahead[k].to = pos /\ Ahead[k].text = Closer(res.obj)

\* N G obj <value> with another word than endobj after it has failed
C7_Witness ==
    /\ res.called /\ ~res.ok
    /\ StartsIndirect /\ HasSimpleValueAt(4) /\ ~ClosedIndirect
    /\ Len(Ahead) >= 4 + SimpleValueAt(4).n

----------------------------------------------------------------------------
(* Properties of write, checked under SpecWrite.                           *)

\* the key texts in S, ascending in the order of their bytes
RECURSIVE AscendingKeys(_)
AscendingKeys(S) ==
    IF S = {} THEN <<>>
    ELSE LET m == CHOOSE x \in S : \A y \in S \ {x} : StringLess(x, y)
         IN  <<m>> \o AscendingKeys(S \ {m})

\* the value that was inserted under the key text k
Inserted(k) == log[CHOOSE i \in 1..Len(log) : log[i][1].data = k][2]

RECURSIVE EntriesText(_)
EntriesText(ks) ==
    IF ks = <<>> THEN <<>>
    ELSE Head(ks) \o <<" ">> \o Write(Inserted(Head(ks))) \o <<" ">>
             \o EntriesText(Tail(ks))

\* C9: write on a dictionary emits its entries in ascending order of the
\* bytes of their keys, whatever the order they were inserted in: the text
\* is a function of the set of pairs that were inserted.
C9_DictWriteOrder ==
    (os.done /\ IsA(a, "PdfDict")) =>
        os.text = <<"<", "<", " ">>
                    \o EntriesText(AscendingKeys({log[i][1].data : i \in 1..Len(log)}))
                    \o <<">", ">">>

\* a dictionary whose keys were inserted in descending order was written
C9_Witness ==
    /\ os.done /\ IsA(a, "PdfDict") /\ Len(log) >= 2
    /\ \A i \in 1..(Len(log) - 1) : StringLess(log[i + 1][1].data, log[i][1].data)

\* C2: the text written for a value without streams parses back to a value
\* equal to it.
C2_RoundTrip ==
    (os.done /\ res.called) => (res.ok /\ Eq(res.obj, a))

----------------------------------------------------------------------------
(* Properties of teardown, checked under SpecHeap.                         *)

\* the addresses the object at x points to, directly or not, and x
RECURSIVE Reachable(_)
Reachable(x) ==
    {x} \cup UNION {Reachable(heap[x].kids[i]) : i \in 1..Len(heap[x].kids)}

\* C5: once the root of a tree is deleted, every object reachable from it
\* has been deleted exactly once.
C5_TeardownFreesAll ==
    \A r \in Roots :
        deleted[r] > 0 => \A x \in Reachable(r) : deleted[x] = 1

====
